---- MODULE Spec2Model ----
(***************************************************************************)
(* A model of the coupled-oscillator network of cpgnet.py: the class       *)
(* CPGNetwork (constructor, step, reset) and the derivative function       *)
(* calculate_ddt.                                                          *)
(*                                                                         *)
(* numpy arrays are objects with identity: the model keeps them in a heap  *)
(* (reference -> contents), because reset() stores the caller's array by   *)
(* reference and step() updates the state arrays in place.                 *)
(*                                                                         *)
(* float64 numbers are fixed-point integers: the number x is the integer   *)
(* x * Scale, products are rounded to the nearest unit.                    *)
(***************************************************************************)
EXTENDS Integers, Sequences, FiniteSets, TLC

VARIABLES
    heap,    \* the numpy arrays: reference -> contents (a sequence of numbers)
    caller,  \* the references the calling script holds
    net,     \* the CPGNetwork objects, by name
    last,    \* the last call made and how it ended
    hist,    \* per network: what it was built with and the state it started from
    nops     \* the number of calls made so far

vars == <<heap, caller, net, last, hist, nops>>

(***************************************************************************)
(* Numbers                                                                 *)
(***************************************************************************)
Scale == 1000

\* np.pi, in units of 1/Scale
Pi == 3142

TwoPi == 2 * Pi

Abs(x) == IF x < 0 THEN -x ELSE x

Max(a, b) == IF a >= b THEN a ELSE b

\* the float product a * b: rounded to the nearest unit, symmetric in sign
Mul(a, b) ==
    LET p == a * b
    IN  IF p >= 0 THEN (2 * p + Scale) \div (2 * Scale)
                  ELSE -((2 * (-p) + Scale) \div (2 * Scale))

\* np.sin on [0, pi] (Bhaskara's rational approximation, exact at 0, pi/2, pi)
SinHalf(x) ==
    LET p == x * (Pi - x)
        d == (5 * Pi * Pi) \div 4 - p
    IN  (4000 * ((p + 5) \div 10) + (d \div 20)) \div (d \div 10)

\* np.sin: odd and periodic with period 2 pi
Sin(x) ==
    LET y == x % TwoPi
    IN  IF y <= Pi THEN SinHalf(y) ELSE -SinHalf(y - Pi)

(***************************************************************************)
(* Arrays                                                                  *)
(***************************************************************************)
\* Python's None, where a reference is expected
None == 0

Instances == {"A", "B"}

\* the number of calls a run makes
MaxOps == 3

\* numpy broadcasting of one-dimensional operands
Broadcastable(m, n) == m = n \/ m = 1 \/ n = 1

\* element k of a vector broadcast to a longer shape
Bx(v, k) == IF Len(v) = 1 THEN v[1] ELSE v[k]

\* element (i, j) of a matrix broadcast to a larger shape
Bm(m, i, j) == m[IF Len(m) = 1 THEN 1 ELSE i][IF Len(m[1]) = 1 THEN 1 ELSE j]

shape(m) == <<Len(m), Len(m[1])>>

RECURSIVE SumTo(_, _)
SumTo(f, n) == IF n = 0 THEN 0 ELSE f[n] + SumTo(f, n - 1)

\* the reference a newly allocated array gets
Fresh(h) ==
    CHOOSE r \in 1..(Cardinality(DOMAIN h) + 1) :
        r \notin DOMAIN h /\ \A q \in 1..(r - 1) : q \in DOMAIN h

Alloc(h, r, v) == [q \in DOMAIN h \cup {r} |-> IF q = r THEN v ELSE h[q]]

\* the references a network object holds
Held(n) ==
    IF n.status = "none" THEN {}
    ELSE {n.intrinsic_freqs, n.intrinsic_amps, n.convergence_coefs,
          n.curr_phases, n.curr_magnitudes}

\* an array nobody refers to any more is freed
Collect(h, nets, keep) ==
    LET liveRefs == keep \cup UNION {Held(nets[i]) : i \in Instances}
    IN  [q \in DOMAIN h \cap liveRefs |-> h[q]]

(***************************************************************************)
(* calculate_ddt                                                           *)
(***************************************************************************)
\* the shapes of the operands broadcast together without a ValueError
ddt_shapes_ok(theta, r, w, phi, nu, R, alpha) ==
    LET T == Len(theta)
        M == Len(r)
        P1 == Max(T, Len(phi))
        P2 == Max(T, Len(phi[1]))
        Q == Max(M, Len(w[1]))
    IN  /\ Broadcastable(T, Len(phi)) /\ Broadcastable(T, Len(phi[1]))
        /\ Broadcastable(M, Len(w[1]))
        /\ Broadcastable(Len(w), P1) /\ Broadcastable(Q, P2)
        /\ Broadcastable(Len(nu), Max(Len(w), P1))
        /\ Broadcastable(Len(R), M)
        /\ Broadcastable(Len(alpha), Max(Len(R), M))

intrinsic_term(nu) == [i \in 1..Len(nu) |-> Mul(TwoPi, nu[i])]

\* phase_diff with the operands swapped: target minus source
phase_diff_swapped(theta, i, j) == Bx(theta, i) - Bx(theta, j)

\* phase_diff[i][j] = theta[j] - theta[i]
phase_diff(theta, i, j) == Bx(theta, j) - Bx(theta, i)

\* (r * w * sin(phase_diff - phi)).sum(axis=1)
coupling_term(theta, r, w, phi) ==
    LET rows == Max(Len(w), Max(Len(theta), Len(phi)))
        cols == Max(Max(Len(r), Len(w[1])), Max(Len(theta), Len(phi[1])))
    IN  [i \in 1..rows |->
            SumTo([j \in 1..cols |->
                      Mul(Mul(Bx(r, j), Bm(w, i, j)),
                          Sin(phase_diff(theta, i, j) - Bm(phi, i, j)))], cols)]

dtheta_dt(theta, r, w, phi, nu) ==
    LET it == intrinsic_term(nu)
        ct == coupling_term(theta, r, w, phi)
    IN  [i \in 1..Max(Len(it), Len(ct)) |-> Bx(it, i) + Bx(ct, i)]

\* dr_dt with the sign of the relaxation term slipped: alpha * (r - R)
dr_dt_away(r, R, alpha) ==
    [i \in 1..Max(Len(alpha), Max(Len(R), Len(r))) |->
        Mul(Bx(alpha, i), Bx(r, i) - Bx(R, i))]

dr_dt(r, R, alpha) ==
    [i \in 1..Max(Len(alpha), Max(Len(R), Len(r))) |->
        Mul(Bx(alpha, i), Bx(R, i) - Bx(r, i))]

calculate_ddt(theta, r, w, phi, nu, R, alpha) ==
    IF ddt_shapes_ok(theta, r, w, phi, nu, R, alpha)
    THEN [ok |-> TRUE,
          dtheta_dt |-> dtheta_dt(theta, r, w, phi, nu),
          dr_dt |-> dr_dt(r, R, alpha)]
    ELSE [ok |-> FALSE, dtheta_dt |-> <<>>, dr_dt |-> <<>>]

(***************************************************************************)
(* CPGNetwork                                                              *)
(***************************************************************************)
NoNet ==
    [status |-> "none", timestep |-> 0, num_cpgs |-> 0,
     intrinsic_freqs |-> None, intrinsic_amps |-> None,
     coupling_weights |-> <<>>, phase_biases |-> <<>>,
     convergence_coefs |-> None, random_state |-> 0,
     curr_phases |-> None, curr_magnitudes |-> None]

NoHist ==
    [seed |-> 0, defaults |-> FALSE, phases0 |-> <<>>, magnitudes0 |-> <<>>,
     start |-> <<>>, k |-> 0, steps |-> 0]

\* a generator that is not the network's own: seeded from what the process
\* has done so far, as the module-level numpy generator is
RandomState_shared(seed) == (seed + nops) % 16

\* np.random.RandomState(seed): the generator's state after seeding
RandomState(seed) == seed % 16

\* the generator's state after k draws
RECURSIVE Advance(_, _)
Advance(s, k) == IF k = 0 THEN s ELSE Advance((5 * s + 3) % 16, k - 1)

\* random_state.random(n): n samples in [0, 1)
random(s, n) == [k \in 1..n |-> (Advance(s, k) * Scale) \div 16]

\* random_state.random(num_cpgs) * 2 * np.pi
random_phases(s, n) == [k \in 1..n |-> Mul(Mul(random(s, n)[k], 2 * Scale), Pi)]

zeros(n) == [k \in 1..n |-> 0]

\* reset(): the heap and the object after the call
reset_phases(h, n, init_phases) ==
    IF init_phases = None
    THEN LET ref == Fresh(h)
         IN  [heap |-> Alloc(h, ref, random_phases(n.random_state, n.num_cpgs)),
              net |-> [n EXCEPT !.curr_phases = ref,
                                !.random_state = Advance(n.random_state, n.num_cpgs)]]
    ELSE [heap |-> h, net |-> [n EXCEPT !.curr_phases = init_phases]]

\* a reset that leaves the magnitudes of a running network as they are when
\* init_magnitudes is omitted
reset_magnitudes_kept(h, n, init_magnitudes) ==
    IF init_magnitudes = None
    THEN IF n.curr_magnitudes # None
         THEN [heap |-> h, net |-> n]
         ELSE LET ref == Fresh(h)
              IN  [heap |-> Alloc(h, ref, zeros(n.num_cpgs)),
                   net |-> [n EXCEPT !.curr_magnitudes = ref]]
    ELSE [heap |-> h, net |-> [n EXCEPT !.curr_magnitudes = init_magnitudes]]

reset_magnitudes(h, n, init_magnitudes) ==
    IF init_magnitudes = None
    THEN LET ref == Fresh(h)
         IN  [heap |-> Alloc(h, ref, zeros(n.num_cpgs)),
              net |-> [n EXCEPT !.curr_magnitudes = ref]]
    ELSE [heap |-> h, net |-> [n EXCEPT !.curr_magnitudes = init_magnitudes]]

reset_state(h, n, init_phases, init_magnitudes) ==
    LET a == reset_phases(h, n, init_phases)
    IN  reset_magnitudes(a.heap, a.net, init_magnitudes)

\* the assertions that end the constructor
shapes_asserted(h, n) ==
    /\ Len(h[n.intrinsic_freqs]) = n.num_cpgs
    /\ shape(n.coupling_weights) = <<n.num_cpgs, n.num_cpgs>>
    /\ shape(n.phase_biases) = <<n.num_cpgs, n.num_cpgs>>
    /\ Len(h[n.convergence_coefs]) = n.num_cpgs
    /\ Len(h[n.curr_phases]) = n.num_cpgs
    /\ Len(h[n.curr_magnitudes]) = n.num_cpgs

\* a += b on the array at ref: in place, b broadcast to the shape of a
iadd_ok(h, ref, b) == Len(b) = Len(h[ref]) \/ Len(b) = 1

iadd(h, ref, b) ==
    [h EXCEPT ![ref] = [k \in 1..Len(h[ref]) |-> h[ref][k] + Bx(b, k)]]

times(v, c) == [k \in 1..Len(v) |-> Mul(v[k], c)]

\* step(): the heap after the call, and whether the call raised
step_state(h, n) ==
    LET d == calculate_ddt(h[n.curr_phases], h[n.curr_magnitudes],
                           n.coupling_weights, n.phase_biases,
                           h[n.intrinsic_freqs], h[n.intrinsic_amps],
                           h[n.convergence_coefs])
        dp == times(d.dtheta_dt, n.timestep)
        dm == times(d.dr_dt, n.timestep)
    IN  IF ~d.ok \/ ~iadd_ok(h, n.curr_phases, dp)
        THEN [heap |-> h, raised |-> TRUE]
        ELSE LET h1 == iadd(h, n.curr_phases, dp)
             IN  IF ~iadd_ok(h1, n.curr_magnitudes, dm)
                 THEN [heap |-> h1, raised |-> TRUE]
                 ELSE [heap |-> iadd(h1, n.curr_magnitudes, dm), raised |-> FALSE]

\* every parameter array has the dimensions the network's N asks for
WellShaped(h, freqs, amps, w, phi, coefs, ip, im) ==
    LET N == Len(h[freqs])
    IN  /\ Len(h[amps]) = N
        /\ Len(h[coefs]) = N
        /\ shape(w) = <<N, N>>
        /\ shape(phi) = <<N, N>>
        /\ ip # None => Len(h[ip]) = N
        /\ im # None => Len(h[im]) = N

\* net = CPGNetwork(timestep, ..., init_phases, init_magnitudes, seed)
CPGNetwork(i, dt, freqs, amps, w, phi, coefs, ip, im, seed) ==
    /\ net[i].status = "none"
    /\ LET n0 == [status |-> "ok", timestep |-> dt,
                  num_cpgs |-> Len(heap[freqs]),
                  intrinsic_freqs |-> freqs, intrinsic_amps |-> amps,
                  coupling_weights |-> w, phase_biases |-> phi,
                  convergence_coefs |-> coefs,
                  random_state |-> RandomState(seed),
                  curr_phases |-> None, curr_magnitudes |-> None]
           r == reset_state(heap, n0, ip, im)
           ok == shapes_asserted(r.heap, r.net)
           nets == IF ok THEN [net EXCEPT ![i] = r.net] ELSE net
       IN  /\ net' = nets
           /\ heap' = Collect(r.heap, nets, caller)
           /\ last' = [op |-> "init", inst |-> i, raised |-> ~ok,
                       wellShaped |-> WellShaped(heap, freqs, amps, w, phi, coefs, ip, im),
                       init_phases |-> ip, init_magnitudes |-> im]
           /\ hist' = IF ok
                      THEN [hist EXCEPT ![i] =
                               [seed |-> seed,
                                defaults |-> (ip = None /\ im = None),
                                phases0 |-> r.heap[r.net.curr_phases],
                                magnitudes0 |-> r.heap[r.net.curr_magnitudes],
                                start |-> r.heap[r.net.curr_phases],
                                k |-> 0, steps |-> 0]]
                      ELSE hist
    /\ nops' = nops + 1
    /\ UNCHANGED caller

\* net.step()
step(i) ==
    /\ net[i].status = "ok"
    /\ LET r == step_state(heap, net[i])
       IN  /\ heap' = r.heap
           /\ last' = [op |-> "step", inst |-> i, raised |-> r.raised,
                       wellShaped |-> TRUE,
                       init_phases |-> None, init_magnitudes |-> None]
           /\ hist' = [hist EXCEPT ![i].k = @ + 1, ![i].steps = @ + 1]
    /\ nops' = nops + 1
    /\ UNCHANGED <<caller, net>>

\* net.reset(init_phases, init_magnitudes)
reset(i, ip, im) ==
    /\ net[i].status = "ok"
    /\ LET r == reset_state(heap, net[i], ip, im)
           nets == [net EXCEPT ![i] = r.net]
       IN  /\ net' = nets
           /\ heap' = Collect(r.heap, nets, caller)
           /\ last' = [op |-> "reset", inst |-> i, raised |-> FALSE,
                       wellShaped |-> TRUE,
                       init_phases |-> ip, init_magnitudes |-> im]
           /\ hist' = [hist EXCEPT ![i].start = r.heap[r.net.curr_phases],
                                   ![i].k = 0]
    /\ nops' = nops + 1
    /\ UNCHANGED caller

(***************************************************************************)
(* One network, called with arrays of every shape                          *)
(***************************************************************************)
NoCall ==
    [op |-> "none", inst |-> "A", raised |-> FALSE, wellShaped |-> TRUE,
     init_phases |-> None, init_magnitudes |-> None]

\* the arrays of the calling script: f, g and z of length 2, c of length 1
Arrays == <<(<<1000, 2000>>), (<<1000, 500>>), (<<0, 0>>), (<<500>>)>>

FreqArrays == {1, 4}

AmpArrays == {2, 4}

PhaseArrays == {None, 1, 3, 4}

MagnitudeArrays == {None, 2, 3, 4}

WeightMatrices ==
    {<<(<<0, 0>>), (<<0, 0>>)>>,
     <<(<<0, 1000>>), (<<1000, 0>>)>>,
     <<(<<0>>)>>}

BiasMatrices == {<<(<<0, Pi>>), (<<Pi, 0>>)>>, <<(<<0>>)>>}

Timesteps == {500}

Seeds == {0, 1}

Init ==
    /\ heap = Arrays
    /\ caller = DOMAIN Arrays
    /\ net = [i \in Instances |-> NoNet]
    /\ last = NoCall
    /\ hist = [i \in Instances |-> NoHist]
    /\ nops = 0

Construct ==
    \E dt \in Timesteps, freqs \in FreqArrays, amps \in AmpArrays,
       coefs \in AmpArrays, w \in WeightMatrices, phi \in BiasMatrices,
       ip \in PhaseArrays, im \in MagnitudeArrays, seed \in Seeds :
        /\ nops < MaxOps
        /\ CPGNetwork("A", dt, freqs, amps, w, phi, coefs, ip, im, seed)

Step == nops < MaxOps /\ step("A")

Reset ==
    \E ip \in PhaseArrays, im \in MagnitudeArrays :
        nops < MaxOps /\ reset("A", ip, im)

Next == Construct \/ Step \/ Reset

Spec == Init /\ [][Next]_vars

(***************************************************************************)
(* Two networks of consistent shapes, built from the same script           *)
(***************************************************************************)
ConstructPair ==
    \E i \in Instances, dt \in Timesteps, freqs \in FreqArrays, amps \in AmpArrays,
       w \in WeightMatrices, phi \in BiasMatrices,
       ip \in {None, 3}, im \in {None, 3}, seed \in Seeds :
        /\ nops < MaxOps
        /\ WellShaped(heap, freqs, amps, w, phi, amps, ip, im)
        /\ CPGNetwork(i, dt, freqs, amps, w, phi, amps, ip, im, seed)

StepPair == \E i \in Instances : nops < MaxOps /\ step(i)

ResetPair ==
    \E i \in Instances, ip \in {None, 3}, im \in {None, 3} :
        nops < MaxOps /\ reset(i, ip, im)

NextPair == ConstructPair \/ StepPair \/ ResetPair

SpecPair == Init /\ [][NextPair]_vars

(***************************************************************************)
(* Amplitude relaxation: one network stepped repeatedly from magnitude 0   *)
(***************************************************************************)
\* the number of step() calls of a rollout
MaxSteps == 14

\* 1: intrinsic_freqs; 2, 3: intrinsic_amps; 4, 5, 6: convergence_coefs; 7: zeros
AmpRunArrays ==
    <<(<<1000, 2000>>), (<<1000, 2000>>), (<<-1000, 500>>),
      (<<500, 1000>>), (<<2000, 3000>>), (<<4000, 0>>), (<<0, 0>>)>>

InitAmp ==
    /\ heap = AmpRunArrays
    /\ caller = DOMAIN AmpRunArrays
    /\ net = [i \in Instances |-> NoNet]
    /\ last = NoCall
    /\ hist = [i \in Instances |-> NoHist]
    /\ nops = 0

ConstructAmp ==
    \E dt \in Timesteps, amps \in {2, 3}, coefs \in {4, 5, 6},
       w \in {m \in WeightMatrices : Len(m) = 2}, im \in {None, 7} :
        /\ nops = 0
        /\ CPGNetwork("A", dt, 1, amps, w, <<(<<0, Pi>>), (<<Pi, 0>>)>>,
                      coefs, None, im, 0)

StepAmp == nops <= MaxSteps /\ step("A")

NextAmp == ConstructAmp \/ StepAmp

SpecAmp == InitAmp /\ [][NextAmp]_vars

(***************************************************************************)
(* The trot rollout of plot_rollout.py                                     *)
(***************************************************************************)
\* the number of step() calls of a rollout
TrotSteps == 240

\* 1: intrinsic_freqs, 2: intrinsic_amps, 3: convergence_coefs; 4 to 9: init_phases
TrotArrays ==
    <<(<<6000, 6000, 6000, 6000>>), (<<1000, 1000, 1000, 1000>>),
      (<<20000, 20000, 20000, 20000>>),
      (<<0, 0, 0, 0>>), (<<0, 0, Pi, Pi>>), (<<0, -1571, 1571, Pi>>),
      (<<0, 1000, 2000, 3000>>), (<<0, 100, 0, 0>>), (<<500, 3500, 3800, 400>>)>>

TrotBiases ==
    <<(<<0, Pi, Pi, 0>>), (<<Pi, 0, 0, Pi>>), (<<Pi, 0, 0, Pi>>), (<<0, Pi, Pi, 0>>)>>

\* coupling_weights = (phase_biases > 0) * 10.0
TrotWeights ==
    [i \in 1..4 |-> [j \in 1..4 |-> IF TrotBiases[i][j] > 0 THEN 10 * Scale ELSE 0]]

InitTrot ==
    /\ heap = TrotArrays
    /\ caller = DOMAIN TrotArrays
    /\ net = [i \in Instances |-> NoNet]
    /\ last = NoCall
    /\ hist = [i \in Instances |-> NoHist]
    /\ nops = 0

ConstructTrot ==
    \E ip \in {None} \cup 4..9, seed \in Seeds :
        /\ nops = 0
        /\ CPGNetwork("A", 2, 1, 2, TrotWeights, TrotBiases, 3, ip, None, seed)

StepTrot == nops <= TrotSteps /\ step("A")

NextTrot == ConstructTrot \/ StepTrot

SpecTrot == InitTrot /\ [][NextTrot]_vars

(***************************************************************************)
(* The claims                                                              *)
(***************************************************************************)
\* a call was made in this step, and it was the call op
Called(op) == nops' # nops /\ last'.op = op

\* the state vectors and intrinsic_amps all have length N
AllLengthN(h, n) ==
    /\ Len(h[n.curr_phases]) = n.num_cpgs
    /\ Len(h[n.curr_magnitudes]) = n.num_cpgs
    /\ Len(h[n.intrinsic_amps]) = n.num_cpgs

IsZero(w) == \A i \in 1..Len(w) : \A j \in 1..Len(w[i]) : w[i][j] = 0

ZeroCoupled(a) == net[a].status = "ok" /\ IsZero(net[a].coupling_weights)

\* C1: the constructor fails exactly when some parameter array (intrinsic_amps,
\* convergence_coefs, coupling_weights, phase_biases, a supplied init_phases or
\* init_magnitudes) has the wrong dimensions for N = len(intrinsic_freqs)
C1_ShapeErrorIffMismatch ==
    last.op = "init" => (last.raised <=> ~last.wellShaped)

\* the half of C1 the code keeps: the constructor never fails on consistent
\* shapes, for N = 1 and N = 2
C1_ConsistentShapesSucceed ==
    (last.op = "init" /\ last.wellShaped) => ~last.raised

\* theta_i + dt * (2 pi nu_i + sum_j r_j * w[i][j] * sin(theta_j - theta_i - phi[i][j]))
EulerPhase(h, n, i) ==
    LET theta == h[n.curr_phases]
        r == h[n.curr_magnitudes]
        nu == h[n.intrinsic_freqs]
    IN  theta[i] + Mul(Mul(TwoPi, nu[i])
                       + SumTo([j \in 1..n.num_cpgs |->
                                   Mul(Mul(r[j], n.coupling_weights[i][j]),
                                       Sin(theta[j] - theta[i] - n.phase_biases[i][j]))],
                               n.num_cpgs),
                       n.timestep)

\* r_i + dt * alpha_i * (R_i - r_i)
EulerMagnitude(h, n, i) ==
    LET r == h[n.curr_magnitudes]
    IN  r[i] + Mul(Mul(h[n.convergence_coefs][i], h[n.intrinsic_amps][i] - r[i]),
                   n.timestep)

\* C2: a step() is one synchronous explicit-Euler update: every oscillator's new
\* phase and magnitude are EulerPhase and EulerMagnitude of the values before
\* the call (source amplitude r_j, index order [target][source]). Stated for
\* networks whose vectors all have length N.
C2_StepIsSynchronousEuler ==
    [][\A a \in Instances :
          (Called("step") /\ last'.inst = a /\ AllLengthN(heap, net[a])) =>
              \A i \in 1..net[a].num_cpgs :
                  /\ heap'[net[a].curr_phases][i] = EulerPhase(heap, net[a], i)
                  /\ heap'[net[a].curr_magnitudes][i] = EulerMagnitude(heap, net[a], i)]_vars

\* what the code keeps of C2: the update is the claimed one whenever
\* curr_phases and curr_magnitudes are two arrays
C2_EulerWhenNotAliased ==
    [][\A a \in Instances :
          (Called("step") /\ last'.inst = a /\ AllLengthN(heap, net[a])
              /\ net[a].curr_phases # net[a].curr_magnitudes) =>
              \A i \in 1..net[a].num_cpgs :
                  /\ heap'[net[a].curr_phases][i] = EulerPhase(heap, net[a], i)
                  /\ heap'[net[a].curr_magnitudes][i] = EulerMagnitude(heap, net[a], i)]_vars

\* C3: curr_phases and curr_magnitudes have length N after every call
C3_StateLengthIsN ==
    \A a \in Instances :
        net[a].status = "ok" =>
            /\ Len(heap[net[a].curr_phases]) = net[a].num_cpgs
            /\ Len(heap[net[a].curr_magnitudes]) = net[a].num_cpgs

Parameters(h, n) ==
    <<n.timestep, h[n.intrinsic_freqs], h[n.intrinsic_amps],
      n.coupling_weights, n.phase_biases, h[n.convergence_coefs]>>

\* C4: no call changes timestep, intrinsic_freqs, intrinsic_amps,
\* coupling_weights, phase_biases or convergence_coefs of a constructed network
C4_ParametersNeverChange ==
    [][\A a \in Instances :
          (net[a].status = "ok" /\ net'[a].status = "ok") =>
              Parameters(heap', net'[a]) = Parameters(heap, net[a])]_vars

StateOf(h, n) == <<h[n.curr_phases], h[n.curr_magnitudes]>>

\* C5: a call on one network leaves the other network's curr_phases and
\* curr_magnitudes unchanged
C5_InstancesShareNoState ==
    [][\A a, b \in Instances :
          (a # b /\ nops' # nops /\ last'.inst = a /\ net[b].status = "ok") =>
              StateOf(heap', net'[b]) = StateOf(heap, net[b])]_vars

\* the last sentence of C5: a step() never changes an array the caller passed in
C5_StepLeavesCallerArrays ==
    [][Called("step") => \A r \in caller : heap'[r] = heap[r]]_vars

Eps == 50

SettleSteps == 13

Distance(h, n, i) == Abs(h[n.curr_magnitudes][i] - h[n.intrinsic_amps][i])

\* the step brings curr_magnitudes[i] no farther from R and not beyond it
MonotoneToward(a, i) ==
    LET R == heap[net[a].intrinsic_amps][i]
        r == heap[net[a].curr_magnitudes][i]
        rNext == heap'[net[a].curr_magnitudes][i]
    IN  /\ Abs(rNext - R) <= Abs(r - R)
        /\ r <= R => rNext <= R
        /\ r >= R => rNext >= R

Settled(a, i) == hist'[a].k >= SettleSteps => Distance(heap', net'[a], i) < Eps

\* 0 < convergence_coefs[i] * timestep <= 1
Contractive(a, i) ==
    LET c == heap[net[a].convergence_coefs][i] * net[a].timestep
    IN  0 < c /\ c <= Scale * Scale

\* C7 as claimed: with zero coupling, from curr_magnitudes[i] = 0, every step()
\* brings curr_magnitudes[i] no farther from R = intrinsic_amps[i] and never
\* beyond it, and the distance ends below eps (from SettleSteps calls on),
\* whatever the product convergence_coefs[i] * timestep
C7_MonotoneAnyProduct ==
    [][\A i \in 1..2 :
          (Called("step") /\ last'.inst = "A" /\ ZeroCoupled("A")) =>
              MonotoneToward("A", i) /\ Settled("A", i)]_vars

\* C7 as amended: the same, for 0 < convergence_coefs[i] * timestep <= 1
C7_MonotoneWhenContractive ==
    [][\A i \in 1..2 :
          (Called("step") /\ last'.inst = "A" /\ ZeroCoupled("A")
              /\ Contractive("A", i)) =>
              MonotoneToward("A", i) /\ Settled("A", i)]_vars

\* an oscillator with product 1/4 that has left 0 and, after SettleSteps
\* calls, is within eps of R
C7_Witness ==
    /\ ZeroCoupled("A") /\ hist["A"].k >= SettleSteps
    /\ \E i \in 1..2 :
          /\ 4 * heap[net["A"].convergence_coefs][i] * net["A"].timestep = Scale * Scale
          /\ Distance(heap, net["A"], i) < Eps
          /\ heap[net["A"].curr_magnitudes][i] # 0

\* C8: with zero coupling, after k step() calls curr_phases[i] is its initial
\* value plus k * timestep * 2 pi * intrinsic_freqs[i], never wrapped.
\* Stated for networks whose vectors all have length N.
C8_ZeroCouplingLinearPhase ==
    \A a \in Instances :
        (ZeroCoupled(a) /\ AllLengthN(heap, net[a])) =>
            \A i \in 1..net[a].num_cpgs :
                heap[net[a].curr_phases][i] =
                    hist[a].start[i]
                    + hist[a].k * Mul(Mul(TwoPi, heap[net[a].intrinsic_freqs][i]),
                                      net[a].timestep)

\* what the code keeps of C8: the phase is linear in k whenever curr_phases,
\* curr_magnitudes and intrinsic_freqs are three arrays
C8_LinearWhenNotAliased ==
    \A a \in Instances :
        (ZeroCoupled(a) /\ AllLengthN(heap, net[a])
            /\ net[a].curr_phases # net[a].curr_magnitudes
            /\ net[a].intrinsic_freqs \notin {net[a].curr_phases, net[a].curr_magnitudes}) =>
            \A i \in 1..net[a].num_cpgs :
                heap[net[a].curr_phases][i] =
                    hist[a].start[i]
                    + hist[a].k * Mul(Mul(TwoPi, heap[net[a].intrinsic_freqs][i]),
                                      net[a].timestep)

\* the tolerance of the phase differences of C9, and the number of calls after
\* which it is met
TrotTol == 50

TrotSettle == 200

\* the distance of the angle x from the angle y, mod 2 pi
AngleDistance(x, y) ==
    LET d == (x - y) % TwoPi
    IN  IF d <= Pi THEN d ELSE TwoPi - d

\* diagonal pairs (0,3) and (1,2) in phase, every coupled pair pi apart
TrotLocked(theta) ==
    /\ AngleDistance(theta[1] - theta[4], 0) <= TrotTol
    /\ AngleDistance(theta[2] - theta[3], 0) <= TrotTol
    /\ \A p \in {<<1, 2>>, <<1, 3>>, <<2, 4>>, <<3, 4>>} :
          AngleDistance(theta[p[1]] - theta[p[2]], Pi) <= TrotTol

\* the pull of the coupling on oscillator i at unit magnitudes
Pull(theta, i) ==
    SumTo([j \in 1..4 |->
              Mul(TrotWeights[i][j], Sin(theta[j] - theta[i] - TrotBiases[i][j]))], 4)

\* the phases are at rest relative to each other
AtEquilibrium(theta) == \A i \in 1..4 : Pull(theta, i) = Pull(theta, 1)

====
